---------------------------- MODULE Spec2Model ----------------------------
(***************************************************************************)
(* Model of the comprehensive site analysis of browser-tools-server:       *)
(* runComprehensiveSiteAnalysis (lighthouse/comprehensive-analysis.ts)     *)
(* launches five audit adapters, joins them with Promise.all, and derives  *)
(* scores, summary, insights, action items and quick wins from the five    *)
(* (possibly substituted) reports.                                         *)
(***************************************************************************)
EXTENDS Integers, Sequences, FiniteSets, TLC

(***************************************************************************)
(* IEEE-754 double arithmetic, as used by the weighted sum of line 137.    *)
(* Every value of that sum lies in [0, 128) and is a multiple of 2^-57     *)
(* (the four weights are, see below), so a double is represented exactly  *)
(* by the non-negative integer N = value * 2^57 < 2^64, held as three limbs*)
(* <<a, b, c>> of 22 bits: N = a*2^44 + b*2^22 + c.                        *)
(***************************************************************************)
LimbBase == 2^22

MantissaBits == 53

\* number of significant bits of x, 0 <= x < 2^22
BitLen22(x) == IF x = 0 THEN 0 ELSE CHOOSE k \in 1..22 : 2^(k-1) <= x /\ x < 2^k

BitLen(n) ==
    IF n[1] > 0 THEN 44 + BitLen22(n[1])
    ELSE IF n[2] > 0 THEN 22 + BitLen22(n[2])
    ELSE BitLen22(n[3])

\* carry propagation of limbs that may exceed LimbBase
Normalize(a, b, c) ==
    LET c2 == c % LimbBase
        b1 == b + (c \div LimbBase)
        b2 == b1 % LimbBase
        a2 == a + (b1 \div LimbBase)
    IN  <<a2, b2, c2>>

\* round-to-nearest, ties-to-even, of an exact result to a 53-bit mantissa
RoundToDouble(n) ==
    LET d == BitLen(n) - MantissaBits
    IN  IF d <= 0 THEN n
        ELSE LET q    == n[3] \div 2^d
                 r    == n[3] % 2^d
                 half == 2^(d-1)
                 up   == r > half \/ (r = half /\ q % 2 = 1)
                 q2   == IF up THEN q + 1 ELSE q
             IN  Normalize(n[1], n[2], q2 * 2^d)

\* the double nearest to w
W_PERFORMANCE == <<2457, 2516582, 1677720>>    \* 0.3  = 0x99999999999998 * 2^-57
W_ACCESSIBILITY == <<2048, 0, 0>>              \* 0.25 = 2^55 * 2^-57
W_SEO == <<2048, 0, 0>>                        \* 0.25
W_BEST_PRACTICES == <<1228, 3355443, 838860>>  \* 0.15 = 0x4ccccccccccccc * 2^-57
W_PWA == <<409, 2516582, 1677722>>             \* 0.05 = 0x1999999999999a * 2^-57

\* score * w in double arithmetic, score an integer 0..100
DoubleMul(score, w) ==
    RoundToDouble(Normalize(score * w[1], score * w[2], score * w[3]))

\* x + y in double arithmetic
DoubleAdd(x, y) ==
    RoundToDouble(Normalize(x[1] + y[1], x[2] + y[2], x[3] + y[3]))

\* Math.round: floor(x + 0.5), exact
MathRound(x) == (x[1] + 2^12) \div 2^13

\* the weighted sum without its last term
WeightedOverallScoreNoPwa(cs) ==
    MathRound(
      DoubleAdd(
        DoubleAdd(
          DoubleAdd(DoubleMul(cs.performance, W_PERFORMANCE),
                    DoubleMul(cs.accessibility, W_ACCESSIBILITY)),
          DoubleMul(cs.seo, W_SEO)),
        DoubleMul(cs.best_practices, W_BEST_PRACTICES)))

\* lines 137-143, evaluated left to right
WeightedOverallScore(cs) ==
    MathRound(
      DoubleAdd(
        DoubleAdd(
          DoubleAdd(
            DoubleAdd(DoubleMul(cs.performance, W_PERFORMANCE),
                      DoubleMul(cs.accessibility, W_ACCESSIBILITY)),
            DoubleMul(cs.seo, W_SEO)),
          DoubleMul(cs.best_practices, W_BEST_PRACTICES)),
        DoubleMul(cs.pwa, W_PWA)))


(***************************************************************************)
(* Reports.  An object is a record; an object whose keys are optional      *)
(* (core_web_vitals, seo.categories) is a function on the keys present,    *)
(* {} being the function with the empty domain.                            *)
(***************************************************************************)
EmptyObject == [k \in {} |-> 0]

Has(obj, key) == key \in DOMAIN obj

AuditCounts(f, p, m, i, n) ==
    [failed |-> f, passed |-> p, manual |-> m, informative |-> i,
     not_applicable |-> n]

createEmptyPerformanceReport ==
    [score |-> 0, audit_counts |-> AuditCounts(0, 0, 0, 0, 0),
     core_web_vitals |-> EmptyObject, metrics |-> <<>>,
     opportunities |-> <<>>, diagnostics |-> <<>>]

\* an empty report that counts one audit
createEmptyAccessibilityReportCounted ==
    [score |-> 0, audit_counts |-> AuditCounts(0, 0, 0, 0, 1),
     violations |-> <<>>, incomplete |-> <<>>, manual_checks |-> <<>>]

createEmptyAccessibilityReport ==
    [score |-> 0, audit_counts |-> AuditCounts(0, 0, 0, 0, 0),
     violations |-> <<>>, incomplete |-> <<>>, manual_checks |-> <<>>]

createEmptySEOReport ==
    [score |-> 0, audit_counts |-> AuditCounts(0, 0, 0, 0, 0),
     issues |-> <<>>, categories |-> EmptyObject]

createEmptyBestPracticesReport ==
    [score |-> 0, audit_counts |-> AuditCounts(0, 0, 0, 0, 0),
     issues |-> <<>>]

\* an empty report that claims offline support
createEmptyPWAReportOffline ==
    [score |-> 0, audit_counts |-> AuditCounts(0, 0, 0, 0, 0),
     installability |-> [is_installable |-> FALSE, has_manifest |-> FALSE,
                         has_service_worker |-> FALSE, has_icons |-> FALSE,
                         issues |-> <<>>],
     offline_support |-> TRUE, fast_reliable |-> FALSE,
     optimized |-> FALSE, issues |-> <<>>]

createEmptyPWAReport ==
    [score |-> 0, audit_counts |-> AuditCounts(0, 0, 0, 0, 0),
     installability |-> [is_installable |-> FALSE, has_manifest |-> FALSE,
                         has_service_worker |-> FALSE, has_icons |-> FALSE,
                         issues |-> <<>>],
     offline_support |-> FALSE, fast_reliable |-> FALSE,
     optimized |-> FALSE, issues |-> <<>>]

(***************************************************************************)
(* Array helpers; Array.prototype.filter is SelectSeq.                      *)
(***************************************************************************)
\* Array.prototype.slice(0, n)
Slice0(arr, n) == SubSeq(arr, 1, IF Len(arr) < n THEN Len(arr) ELSE n)


(***************************************************************************)
(* calculateSummary (lines 221-286).                                       *)
(***************************************************************************)
\* a count that takes serious for critical as well
IsCriticalOrSeriousImpact(x) == x.impact \in {"critical", "serious"}

IsCriticalImpact(x) == x.impact = "critical"

IsCriticalSeverity(x) == x.severity = "critical"

calculateSummary(performance, accessibility, seo, best_practices, pwa) ==
    [total_audits |->
         performance.audit_counts.failed + performance.audit_counts.passed
       + accessibility.audit_counts.failed + accessibility.audit_counts.passed
       + seo.audit_counts.failed + seo.audit_counts.passed
       + best_practices.audit_counts.failed + best_practices.audit_counts.passed
       + pwa.audit_counts.failed + pwa.audit_counts.passed,
     passed_audits |->
         performance.audit_counts.passed + accessibility.audit_counts.passed
       + seo.audit_counts.passed + best_practices.audit_counts.passed
       + pwa.audit_counts.passed,
     failed_audits |->
         performance.audit_counts.failed + accessibility.audit_counts.failed
       + seo.audit_counts.failed + best_practices.audit_counts.failed
       + pwa.audit_counts.failed,
     total_issues |->
         Len(performance.opportunities) + Len(accessibility.violations)
       + Len(seo.issues) + Len(best_practices.issues) + Len(pwa.issues),
     critical_issues |->
         Len(SelectSeq(performance.opportunities, IsCriticalImpact))
       + Len(SelectSeq(accessibility.violations, IsCriticalImpact))
       + Len(SelectSeq(seo.issues, IsCriticalImpact))
       + Len(SelectSeq(best_practices.issues, IsCriticalSeverity))
       + Len(SelectSeq(pwa.issues, IsCriticalSeverity))]

(***************************************************************************)
(* generateCrossCategoryInsights (lines 291-390).  The fixed description   *)
(* and recommendation texts of the literals are left out.                  *)
(***************************************************************************)
CLS_THRESHOLD_MILLI == 100     \* 0.1, layout shift held in thousandths

PERFORMANCE_SCORE_GATE == 70

\* the truthiness test `x && x > limit` on an optional number
PresentAndAbove(obj, key, limit) ==
    Has(obj, key) /\ obj[key] # 0 /\ obj[key] > limit

HasId(arr, id) == \E k \in 1..Len(arr) : arr[k].id = id

HasCategory(arr, cat) == \E k \in 1..Len(arr) : arr[k].category = cat

\* seo.categories?.mobile?.issues_count > 0
MobileIssuesPositive(seo) ==
    Has(seo.categories, "mobile") /\ seo.categories["mobile"].issues_count > 0

Insight1 ==
    [id |-> "large-images-multi-impact",
     title |-> "Image optimization affects multiple areas",
     affected_categories |-> <<"performance", "accessibility", "seo">>,
     impact |-> "serious"]

Insight2 ==
    [id |-> "mobile-optimization-needed",
     title |-> "Mobile experience needs improvement",
     affected_categories |-> <<"performance", "seo", "accessibility">>,
     impact |-> "serious"]

Insight3 ==
    [id |-> "pwa-capabilities-missing",
     title |-> "PWA features could improve performance and engagement",
     affected_categories |-> <<"pwa", "performance">>,
     impact |-> "moderate"]

Insight4 ==
    [id |-> "https-security-seo",
     title |-> "HTTPS migration needed for security and SEO",
     affected_categories |-> <<"best_practices", "seo">>,
     impact |-> "critical"]

Insight5 ==
    [id |-> "semantic-html-structure",
     title |-> "HTML structure impacts both accessibility and SEO",
     affected_categories |-> <<"accessibility", "seo">>,
     impact |-> "moderate"]

\* rule 1 with either condition sufficing
InsightGate1Either(performance, accessibility) ==
    \/ HasId(performance.opportunities, "uses-optimized-images")
    \/ HasId(accessibility.violations, "image-alt")

InsightGate1(performance, accessibility) ==
    /\ HasId(performance.opportunities, "uses-optimized-images")
    /\ HasId(accessibility.violations, "image-alt")

InsightGate2(performance, seo) ==
    /\ PresentAndAbove(performance.core_web_vitals, "CLS", CLS_THRESHOLD_MILLI)
    /\ MobileIssuesPositive(seo)

\* rule 3 without the offline-support test
InsightGate3NoOffline(performance, pwa) ==
    /\ ~pwa.installability.is_installable
    /\ performance.score < PERFORMANCE_SCORE_GATE

InsightGate3(performance, pwa) ==
    /\ ~pwa.installability.is_installable
    /\ performance.score < PERFORMANCE_SCORE_GATE
    /\ ~pwa.offline_support

\* rule 4 asking for a critical HTTPS issue, as action 1 does
InsightGate4CriticalOnly(seo, best_practices) ==
    /\ \E k \in 1..Len(best_practices.issues) :
          /\ best_practices.issues[k].id = "is-on-https"
          /\ best_practices.issues[k].severity = "critical"
    /\ HasCategory(seo.issues, "crawlability")

InsightGate4(seo, best_practices) ==
    /\ HasId(best_practices.issues, "is-on-https")
    /\ HasCategory(seo.issues, "crawlability")

InsightGate5(accessibility, seo) ==
    /\ \E k \in 1..Len(accessibility.violations) :
          accessibility.violations[k].id \in {"heading-order", "document-title"}
    /\ HasCategory(seo.issues, "content")

\* `if (gate) list.push(item)`
PushIf(list, gate, item) == IF gate THEN Append(list, item) ELSE list

\* the rules chained with else-if: the first rule that matches wins
generateCrossCategoryInsightsElseIf(performance, accessibility, seo, best_practices, pwa) ==
    IF InsightGate1(performance, accessibility) THEN <<Insight1>>
    ELSE IF InsightGate2(performance, seo) THEN <<Insight2>>
    ELSE IF InsightGate3(performance, pwa) THEN <<Insight3>>
    ELSE IF InsightGate4(seo, best_practices) THEN <<Insight4>>
    ELSE IF InsightGate5(accessibility, seo) THEN <<Insight5>>
    ELSE <<>>

generateCrossCategoryInsights(performance, accessibility, seo, best_practices, pwa) ==
    LET i1 == PushIf(<<>>, InsightGate1(performance, accessibility), Insight1)
        i2 == PushIf(i1, InsightGate2(performance, seo), Insight2)
        i3 == PushIf(i2, InsightGate3(performance, pwa), Insight3)
        i4 == PushIf(i3, InsightGate4(seo, best_practices), Insight4)
        i5 == PushIf(i4, InsightGate5(accessibility, seo), Insight5)
    IN  i5


(***************************************************************************)
(* generatePrioritizedActionItems (lines 395-528).  The description and    *)
(* action_steps texts of the literals are left out.                        *)
(***************************************************************************)
LCP_THRESHOLD_MS == 2500

PWA_SCORE_GATE == 50

MAX_ACTION_ITEMS == 10

ActionGate1(best_practices) ==
    \E k \in 1..Len(best_practices.issues) :
        /\ best_practices.issues[k].id = "is-on-https"
        /\ best_practices.issues[k].severity = "critical"

ActionGate2(performance) ==
    PresentAndAbove(performance.core_web_vitals, "LCP", LCP_THRESHOLD_MS)

criticalA11yIssues(accessibility) ==
    SelectSeq(accessibility.violations, IsCriticalImpact)

ActionGate3(accessibility) == Len(criticalA11yIssues(accessibility)) > 0

ActionGate4(seo) == HasId(seo.issues, "meta-description")

\* the gate skipping a report in which no audit ran
ActionGate5Audited(pwa) ==
    /\ ~pwa.installability.is_installable
    /\ pwa.score < PWA_SCORE_GATE
    /\ pwa.score > 0

ActionGate5(pwa) ==
    ~pwa.installability.is_installable /\ pwa.score < PWA_SCORE_GATE

\* the HTTPS candidate with a lower literal
Action1LowRoi(rank) ==
    [rank |-> rank, title |-> "Migrate to HTTPS",
     categories |-> <<"best_practices", "seo">>, impact |-> "critical",
     effort |-> "medium", roi_score |-> 75]

Action1(rank) ==
    [rank |-> rank, title |-> "Migrate to HTTPS",
     categories |-> <<"best_practices", "seo">>, impact |-> "critical",
     effort |-> "medium", roi_score |-> 95]

Action2(rank) ==
    [rank |-> rank, title |-> "Optimize Largest Contentful Paint (LCP)",
     categories |-> <<"performance", "seo">>, impact |-> "serious",
     effort |-> "medium", roi_score |-> 90]

Action3(rank, count) ==
    [rank |-> rank,
     title |-> "Fix " \o ToString(count) \o " critical accessibility issues",
     categories |-> <<"accessibility">>, impact |-> "critical",
     effort |-> "low", roi_score |-> 85]

Action4(rank) ==
    [rank |-> rank, title |-> "Add meta descriptions",
     categories |-> <<"seo">>, impact |-> "moderate",
     effort |-> "low", roi_score |-> 80]

Action5(rank) ==
    [rank |-> rank, title |-> "Implement Progressive Web App features",
     categories |-> <<"pwa", "performance">>, impact |-> "moderate",
     effort |-> "high", roi_score |-> 70]

\* the candidates in push order, each with its provisional rank
ActionCandidates(performance, accessibility, seo, best_practices, pwa) ==
    LET a1 == PushIf(<<>>, ActionGate1(best_practices), Action1(1))
        a2 == PushIf(a1, ActionGate2(performance), Action2(Len(a1) + 1))
        a3 == PushIf(a2, ActionGate3(accessibility),
                     Action3(Len(a2) + 1, Len(criticalA11yIssues(accessibility))))
        a4 == PushIf(a3, ActionGate4(seo), Action4(Len(a3) + 1))
        a5 == PushIf(a4, ActionGate5(pwa), Action5(Len(a4) + 1))
    IN  a5

\* the comparator with its operands swapped
CompareRoiAscending(a, b) == a.roi_score - b.roi_score

\* comparator of line 520: negative when a sorts before b
CompareRoi(a, b) == b.roi_score - a.roi_score

\* Array.prototype.sort is stable: x goes behind every element it does not
\* strictly precede
RECURSIVE InsertSorted(_, _)
InsertSorted(sorted, x) ==
    IF sorted = <<>> THEN <<x>>
    ELSE IF CompareRoi(x, Head(sorted)) < 0
         THEN <<x>> \o sorted
         ELSE <<Head(sorted)>> \o InsertSorted(Tail(sorted), x)

RECURSIVE SortByRoi(_)
SortByRoi(arr) ==
    IF arr = <<>> THEN <<>>
    ELSE InsertSorted(SortByRoi(SubSeq(arr, 1, Len(arr) - 1)), arr[Len(arr)])

\* ranks taken from the 0-based index
ReassignRanksZeroBased(arr) ==
    [k \in 1..Len(arr) |-> [arr[k] EXCEPT !.rank = k - 1]]

\* lines 523-525
ReassignRanks(arr) == [k \in 1..Len(arr) |-> [arr[k] EXCEPT !.rank = k]]

\* no action items unless some insight was found
generatePrioritizedActionItemsIfInsights(performance, accessibility, seo, best_practices, pwa, cross_category_insights) ==
    IF cross_category_insights = <<>> THEN <<>>
    ELSE Slice0(ReassignRanks(SortByRoi(
                    ActionCandidates(performance, accessibility, seo,
                                     best_practices, pwa))),
                MAX_ACTION_ITEMS)

generatePrioritizedActionItems(performance, accessibility, seo, best_practices, pwa, cross_category_insights) ==
    Slice0(ReassignRanks(SortByRoi(
               ActionCandidates(performance, accessibility, seo,
                                best_practices, pwa))),
           MAX_ACTION_ITEMS)

(***************************************************************************)
(* generateQuickWins (lines 533-615).  The impact and action texts of the  *)
(* literals are left out.                                                  *)
(***************************************************************************)
MAX_QUICK_WINS == 6

QuickWin(title, category, time) ==
    [title |-> title, category |-> category, estimated_time |-> time]

\* the quick wins grouped by category, SEO first
generateQuickWinsByCategory(performance, accessibility, seo, best_practices, pwa) ==
    LET q1 == PushIf(<<>>, HasId(seo.issues, "meta-description"),
                     QuickWin("Add meta description", "seo", "5 minutes"))
        q2 == PushIf(q1, HasId(seo.issues, "viewport"),
                     QuickWin("Add viewport meta tag", "seo", "2 minutes"))
        q3 == PushIf(q2, HasId(seo.issues, "document-title"),
                     QuickWin("Add descriptive page title", "seo", "5 minutes"))
        q4 == PushIf(q3, HasId(accessibility.violations, "image-alt"),
                     QuickWin("Add alt text to images", "accessibility",
                              "10 minutes"))
        q5 == PushIf(q4, HasId(accessibility.violations, "color-contrast"),
                     QuickWin("Fix color contrast issues", "accessibility",
                              "20 minutes"))
        q6 == PushIf(q5, HasId(performance.opportunities,
                               "uses-text-compression"),
                     QuickWin("Enable Gzip/Brotli compression", "performance",
                              "15 minutes"))
    IN  Slice0(q6, MAX_QUICK_WINS)

generateQuickWins(performance, accessibility, seo, best_practices, pwa) ==
    LET q1 == PushIf(<<>>, HasId(seo.issues, "meta-description"),
                     QuickWin("Add meta description", "seo", "5 minutes"))
        q2 == PushIf(q1, HasId(accessibility.violations, "image-alt"),
                     QuickWin("Add alt text to images", "accessibility",
                              "10 minutes"))
        q3 == PushIf(q2, HasId(performance.opportunities,
                               "uses-text-compression"),
                     QuickWin("Enable Gzip/Brotli compression", "performance",
                              "15 minutes"))
        q4 == PushIf(q3, HasId(seo.issues, "viewport"),
                     QuickWin("Add viewport meta tag", "seo", "2 minutes"))
        q5 == PushIf(q4, HasId(seo.issues, "document-title"),
                     QuickWin("Add descriptive page title", "seo", "5 minutes"))
        q6 == PushIf(q5, HasId(accessibility.violations, "color-contrast"),
                     QuickWin("Fix color contrast issues", "accessibility",
                              "20 minutes"))
    IN  Slice0(q6, MAX_QUICK_WINS)


(***************************************************************************)
(* runPWAAudit (pwa.ts, lines 68-224).  Lighthouse scores are reals in     *)
(* [0, 1] with two decimals; they are held in hundredths, null as          *)
(* NullScore.  A Lighthouse result is                                      *)
(*   [categories |-> object with optional key "pwa" ->                     *)
(*                     [score, auditRefs (sequence of audit ids)],         *)
(*    audits |-> object audit id -> [score, scoreDisplayMode, title]].     *)
(***************************************************************************)
NullScore == -1

PerfectScore == 100    \* the score 1

\* audits?.[id]?.score === 1
ScoresOne(audits, id) == Has(audits, id) /\ audits[id].score = PerfectScore

\* `audit && audit.score !== 1`
PresentNotOne(audits, id) == Has(audits, id) /\ audits[id].score # PerfectScore

\* installable as soon as one of the two audits scores 1
PWAInstallabilityEither(audits) ==
    LET has_manifest       == ScoresOne(audits, "installable-manifest")
        has_service_worker == ScoresOne(audits, "service-worker")
        has_icons          == ScoresOne(audits, "apple-touch-icon")
        s1 == PushIf(<<>>, ~has_manifest,
                 "Missing or invalid web app manifest (manifest.json)")
        s2 == PushIf(s1, ~has_service_worker,
                 "No service worker registered (required for offline support)")
        s3 == PushIf(s2, ~has_icons,
                 "Missing app icons (required for installation)")
        s4 == PushIf(s3, PresentNotOne(audits, "splash-screen"),
                 "Splash screen configuration incomplete")
        s5 == PushIf(s4, PresentNotOne(audits, "themed-omnibox"),
                 "Themed omnibox (theme-color) not configured")
    IN  [is_installable |-> has_manifest \/ has_service_worker,
         has_manifest |-> has_manifest,
         has_service_worker |-> has_service_worker,
         has_icons |-> has_icons,
         issues |-> s5]

PWAInstallability(audits) ==
    LET has_manifest       == ScoresOne(audits, "installable-manifest")
        has_service_worker == ScoresOne(audits, "service-worker")
        has_icons          == ScoresOne(audits, "apple-touch-icon")
        s1 == PushIf(<<>>, ~has_manifest,
                 "Missing or invalid web app manifest (manifest.json)")
        s2 == PushIf(s1, ~has_service_worker,
                 "No service worker registered (required for offline support)")
        s3 == PushIf(s2, ~has_icons,
                 "Missing app icons (required for installation)")
        s4 == PushIf(s3, PresentNotOne(audits, "splash-screen"),
                 "Splash screen configuration incomplete")
        s5 == PushIf(s4, PresentNotOne(audits, "themed-omnibox"),
                 "Themed omnibox (theme-color) not configured")
    IN  [is_installable |-> has_manifest /\ has_service_worker,
         has_manifest |-> has_manifest,
         has_service_worker |-> has_service_worker,
         has_icons |-> has_icons,
         issues |-> s5]

\* the serious threshold taken strictly
PWASeverityStrict(score) ==
    IF score = 0 THEN "critical"
    ELSE IF score # NullScore /\ score < 50 THEN "serious"
    ELSE IF score # NullScore /\ score > 70 THEN "minor"
    ELSE "moderate"

\* lines 164-171
PWASeverity(score) ==
    IF score = 0 THEN "critical"
    ELSE IF score # NullScore /\ score <= 50 THEN "serious"
    ELSE IF score # NullScore /\ score > 70 THEN "minor"
    ELSE "moderate"

\* the score tested before the display mode
PWABucketScoreFirst(audit) ==
    IF audit.score = PerfectScore THEN "passed"
    ELSE IF audit.scoreDisplayMode = "manual" THEN "manual"
    ELSE IF audit.scoreDisplayMode = "informative" THEN "informative"
    ELSE IF audit.scoreDisplayMode = "notApplicable" THEN "not_applicable"
    ELSE "failed"

\* the bucket one audit entry is counted in (lines 142-161)
PWABucket(audit) ==
    IF audit.scoreDisplayMode = "manual" THEN "manual"
    ELSE IF audit.scoreDisplayMode = "informative" THEN "informative"
    ELSE IF audit.scoreDisplayMode = "notApplicable" THEN "not_applicable"
    ELSE IF audit.score = PerfectScore THEN "passed"
    ELSE "failed"

\* the loop with the `continue` of the manual branch missing: a manual
\* audit is counted a second time, as passed or failed
RECURSIVE PWAScanFallThrough(_, _, _)
PWAScanFallThrough(auditRefs, audits, n) ==
    IF n = 0
    THEN [counts |-> AuditCounts(0, 0, 0, 0, 0), issues |-> <<>>]
    ELSE LET prev == PWAScanFallThrough(auditRefs, audits, n - 1)
             id   == auditRefs[n]
         IN  IF ~Has(audits, id) THEN prev
             ELSE LET audit  == audits[id]
                      bucket == PWABucket(audit)
                      again  == IF audit.score = PerfectScore THEN "passed"
                                ELSE "failed"
                      once   == [prev.counts EXCEPT ![bucket] = @ + 1]
                  IN  [counts |-> IF bucket = "manual"
                                  THEN [once EXCEPT ![again] = @ + 1]
                                  ELSE once,
                       issues |->
                           IF bucket = "failed"
                           THEN Append(prev.issues,
                                    [id |-> id, title |-> audit.title,
                                     score |-> audit.score,
                                     severity |-> PWASeverity(audit.score)])
                           ELSE prev.issues]

\* the loop of lines 137-180 over auditRefs[1..n]; refs without an audit are
\* skipped
RECURSIVE PWAScan(_, _, _)
PWAScan(auditRefs, audits, n) ==
    IF n = 0
    THEN [counts |-> AuditCounts(0, 0, 0, 0, 0), issues |-> <<>>]
    ELSE LET prev == PWAScan(auditRefs, audits, n - 1)
             id   == auditRefs[n]
         IN  IF ~Has(audits, id) THEN prev
             ELSE LET audit  == audits[id]
                      bucket == PWABucket(audit)
                  IN  [counts |-> [prev.counts EXCEPT ![bucket] = @ + 1],
                       issues |->
                           IF bucket = "failed"
                           THEN Append(prev.issues,
                                    [id |-> id, title |-> audit.title,
                                     score |-> audit.score,
                                     severity |-> PWASeverity(audit.score)])
                           ELSE prev.issues]

severityOrder(sev) ==
    CASE sev = "critical" -> 0
      [] sev = "serious"  -> 1
      [] sev = "moderate" -> 2
      [] sev = "minor"    -> 3

\* the comparator with its operands exchanged
CompareSeverityReversed(a, b) ==
    severityOrder(b.severity) - severityOrder(a.severity)

\* comparator of lines 184-187
CompareSeverity(a, b) == severityOrder(a.severity) - severityOrder(b.severity)

RECURSIVE InsertBySeverity(_, _)
InsertBySeverity(sorted, x) ==
    IF sorted = <<>> THEN <<x>>
    ELSE IF CompareSeverity(x, Head(sorted)) < 0
         THEN <<x>> \o sorted
         ELSE <<Head(sorted)>> \o InsertBySeverity(Tail(sorted), x)

\* issues.sort(...), stable and in place
RECURSIVE SortBySeverity(_)
SortBySeverity(arr) ==
    IF arr = <<>> THEN <<>>
    ELSE InsertBySeverity(SortBySeverity(SubSeq(arr, 1, Len(arr) - 1)),
                          arr[Len(arr)])

\* String.prototype.toUpperCase on the four severities
ToUpperCase(sev) ==
    CASE sev = "critical" -> "CRITICAL"
      [] sev = "serious"  -> "SERIOUS"
      [] sev = "moderate" -> "MODERATE"
      [] sev = "minor"    -> "MINOR"

MAX_RECOMMENDATIONS == 5

FAST_RELIABLE_SCORE == 70

OPTIMIZED_SCORE == 90

\* Math.round((pwaCategory.score ?? 0) * 100), score in hundredths
PWAScore(category) == IF category.score = NullScore THEN 0 ELSE category.score

\* the recommendations taken from a sorted copy, the issues left as pushed
PWAContentSortedCopy(result) ==
    LET pwaCategory == result.categories["pwa"]
        score       == PWAScore(pwaCategory)
        scan        == PWAScan(pwaCategory.auditRefs, result.audits,
                               Len(pwaCategory.auditRefs))
        issues      == SortBySeverity(scan.issues)
    IN  [score |-> score,
         audit_counts |-> scan.counts,
         installability |-> PWAInstallability(result.audits),
         offline_support |-> ScoresOne(result.audits, "service-worker"),
         fast_reliable |-> score >= FAST_RELIABLE_SCORE,
         optimized |-> score >= OPTIMIZED_SCORE,
         issues |-> scan.issues,
         prioritized_recommendations |->
             Slice0([k \in 1..Len(issues) |->
                        ToUpperCase(issues[k].severity) \o ": "
                            \o issues[k].title],
                    MAX_RECOMMENDATIONS)]

\* the report content built from a result that has the pwa category
PWAContent(result) ==
    LET pwaCategory == result.categories["pwa"]
        score       == PWAScore(pwaCategory)
        scan        == PWAScan(pwaCategory.auditRefs, result.audits,
                               Len(pwaCategory.auditRefs))
        issues      == SortBySeverity(scan.issues)
    IN  [score |-> score,
         audit_counts |-> scan.counts,
         installability |-> PWAInstallability(result.audits),
         offline_support |-> ScoresOne(result.audits, "service-worker"),
         fast_reliable |-> score >= FAST_RELIABLE_SCORE,
         optimized |-> score >= OPTIMIZED_SCORE,
         issues |-> issues,
         prioritized_recommendations |->
             Slice0([k \in 1..Len(issues) |->
                        ToUpperCase(issues[k].severity) \o ": "
                            \o issues[k].title],
                    MAX_RECOMMENDATIONS)]

\* the settled promise of runPWAAudit: the engine's outcome is either a thrown
\* error or a Lighthouse result
Rejected(message) == [state |-> "rejected", message |-> message]

Fulfilled(value) == [state |-> "fulfilled", value |-> value]

\* a missing category answered with the empty report instead of an error
runPWAAuditLenient(engine) ==
    IF engine.state = "rejected"
    THEN Rejected("PWA audit failed: " \o engine.message)
    ELSE IF ~Has(engine.value.categories, "pwa")
    THEN Fulfilled([report |-> [category |-> "pwa",
                                content |-> createEmptyPWAReport]])
    ELSE Fulfilled([report |-> [category |-> "pwa",
                                content |-> PWAContent(engine.value)]])

runPWAAudit(engine) ==
    IF engine.state = "rejected"
    THEN Rejected("PWA audit failed: " \o engine.message)
    ELSE IF ~Has(engine.value.categories, "pwa")
    THEN Rejected("PWA audit failed: PWA category not found in Lighthouse result")
    ELSE Fulfilled([report |-> [category |-> "pwa",
                                content |-> PWAContent(engine.value)]])


(***************************************************************************)
(* Adapter outcomes.  The performance, accessibility, SEO and              *)
(* best-practices adapters are imported (lines 2-14); what they settle     *)
(* with is an input, drawn from the sample reports below.  The PWA         *)
(* adapter is runPWAAudit applied to an outcome of the engine.             *)
(***************************************************************************)
Issue(id, impact) == [id |-> id, impact |-> impact]

SeoIssue(id, impact, category) ==
    [id |-> id, impact |-> impact, category |-> category]

BpIssue(id, severity) == [id |-> id, severity |-> severity]

PerformanceReports ==
    { [score |-> 100, audit_counts |-> AuditCounts(0, 5, 1, 2, 1),
       core_web_vitals |-> [LCP |-> 1200, CLS |-> 50],
       metrics |-> <<"LCP", "CLS">>, opportunities |-> <<>>,
       diagnostics |-> <<>>],
      [score |-> 45, audit_counts |-> AuditCounts(2, 3, 1, 2, 0),
       core_web_vitals |-> [LCP |-> 4000, CLS |-> 250],
       metrics |-> <<"LCP", "CLS">>,
       opportunities |-> <<Issue("uses-optimized-images", "serious"),
                           Issue("uses-text-compression", "critical")>>,
       diagnostics |-> <<"dom-size">>],
      [score |-> 62, audit_counts |-> AuditCounts(1, 4, 1, 2, 0),
       core_web_vitals |-> [CLS |-> 80],
       metrics |-> <<"CLS">>,
       opportunities |-> <<Issue("unused-javascript", "moderate")>>,
       diagnostics |-> <<>>] }

AccessibilityReports ==
    { [score |-> 100, audit_counts |-> AuditCounts(0, 6, 2, 0, 3),
       violations |-> <<>>, incomplete |-> <<>>, manual_checks |-> <<"focus-traps">>],
      [score |-> 58, audit_counts |-> AuditCounts(3, 3, 2, 0, 3),
       violations |-> <<Issue("image-alt", "critical"),
                        Issue("color-contrast", "serious"),
                        Issue("heading-order", "critical")>>,
       incomplete |-> <<>>, manual_checks |-> <<"focus-traps">>] }

SEOReports ==
    { [score |-> 100, audit_counts |-> AuditCounts(0, 7, 1, 0, 1),
       issues |-> <<>>,
       categories |-> [mobile |-> [issues_count |-> 0]]],
      [score |-> 73, audit_counts |-> AuditCounts(4, 3, 1, 0, 1),
       issues |-> <<SeoIssue("meta-description", "moderate", "content"),
                    SeoIssue("is-crawlable", "critical", "crawlability"),
                    SeoIssue("viewport", "serious", "mobile"),
                    SeoIssue("document-title", "serious", "content")>>,
       categories |-> [mobile |-> [issues_count |-> 1]]] }

BestPracticesReports ==
    { [score |-> 100, audit_counts |-> AuditCounts(0, 8, 0, 1, 2),
       issues |-> <<>>],
      [score |-> 46, audit_counts |-> AuditCounts(2, 6, 0, 1, 2),
       issues |-> <<BpIssue("errors-in-console", "minor"),
                    BpIssue("is-on-https", "critical")>>],
      [score |-> 83, audit_counts |-> AuditCounts(1, 7, 0, 1, 2),
       issues |-> <<BpIssue("is-on-https", "serious")>>] }

Audit(score, mode, title) ==
    [score |-> score, scoreDisplayMode |-> mode, title |-> title]

PWAAuditRefs ==
    <<"installable-manifest", "service-worker", "apple-touch-icon",
      "splash-screen", "themed-omnibox", "viewport", "maskable-icon",
      "pwa-cross-browser", "content-width">>

LighthouseResults ==
    { \* every audit passes
      [categories |-> [pwa |-> [score |-> 100, auditRefs |-> PWAAuditRefs]],
       audits |-> [x \in {"installable-manifest", "service-worker",
                          "apple-touch-icon", "splash-screen",
                          "themed-omnibox", "viewport"}
                     |-> Audit(100, "binary", x)]],
      \* nothing of a PWA is there
      [categories |-> [pwa |-> [score |-> 25, auditRefs |-> PWAAuditRefs]],
       audits |->
         ("themed-omnibox" :> Audit(80, "numeric", "themed-omnibox")) @@
         ("splash-screen" :> Audit(60, "numeric", "splash-screen")) @@
         ("installable-manifest" :> Audit(0, "binary", "installable-manifest")) @@
         ("service-worker" :> Audit(0, "binary", "service-worker")) @@
         ("apple-touch-icon" :> Audit(50, "numeric", "apple-touch-icon")) @@
         ("viewport" :> Audit(100, "binary", "viewport")) @@
         ("maskable-icon" :> Audit(NullScore, "binary", "maskable-icon")) @@
         ("pwa-cross-browser" :> Audit(NullScore, "manual", "pwa-cross-browser")) @@
         ("content-width" :> Audit(NullScore, "notApplicable", "content-width"))],
      \* a service worker without an installable manifest
      [categories |-> [pwa |-> [score |-> 60, auditRefs |-> PWAAuditRefs]],
       audits |->
         ("installable-manifest" :> Audit(0, "binary", "installable-manifest")) @@
         ("service-worker" :> Audit(100, "binary", "service-worker")) @@
         ("apple-touch-icon" :> Audit(100, "binary", "apple-touch-icon")) @@
         ("viewport" :> Audit(100, "binary", "viewport")) @@
         ("pwa-cross-browser" :> Audit(NullScore, "manual", "pwa-cross-browser"))],
      \* the response lacks the requested category
      [categories |-> EmptyObject,
       audits |-> ("viewport" :> Audit(100, "binary", "viewport"))] }

\* what runLighthouseAudit settles with
EngineOutcomes ==
    {Fulfilled(r) : r \in LighthouseResults}
      \cup {Rejected("Lighthouse audit failed")}

\* the two ways an imported adapter fails
AdapterErrors ==
    {"category not found in Lighthouse result", "Lighthouse audit failed"}

Cats == <<"performance", "accessibility", "seo", "best_practices", "pwa">>

CatSet == {Cats[k] : k \in 1..Len(Cats)}

AdapterOutcomes(c) ==
    CASE c = "performance" ->
           {Fulfilled([report |-> [content |-> r]]) : r \in PerformanceReports}
             \cup {Rejected(m) : m \in AdapterErrors}
      [] c = "accessibility" ->
           {Fulfilled([report |-> [content |-> r]]) : r \in AccessibilityReports}
             \cup {Rejected(m) : m \in AdapterErrors}
      [] c = "seo" ->
           {Fulfilled([report |-> r]) : r \in SEOReports}
             \cup {Rejected(m) : m \in AdapterErrors}
      [] c = "best_practices" ->
           {Fulfilled([report |-> [content |-> r]]) : r \in BestPracticesReports}
             \cup {Rejected(m) : m \in AdapterErrors}


(***************************************************************************)
(* runComprehensiveSiteAnalysis (lines 90-216) as a state machine.         *)
(*   engine       the promise of the runLighthouseAudit call of the PWA    *)
(*                adapter                                                  *)
(*   adapter[c]   the promise of adapter c                                 *)
(*   all          the Promise.all of line 103: the value slots, one per    *)
(*                adapter by position, and the count of inputs not yet     *)
(*                settled                                                  *)
(*   lastSettled  the adapter whose promise settled most recently          *)
(*   pc           the statement the function is at                         *)
(*   locals       the consts assigned so far, by name                      *)
(*   ret          the promise the function returned                        *)
(* analyzed_at (the clock) is not modelled.                                *)
(***************************************************************************)
VARIABLES url, engine, adapter, all, lastSettled, pc, locals, ret

\* the session server: the sessions map, the session objects it and the
\* suspended handlers refer to, the handlers suspended at their await, the
\* clock read by `new Date()` and the last response sent
VARIABLES sessions, heap, requests, now, response

serverVars == <<sessions, heap, requests, now, response>>

coreVars == <<url, engine, adapter, all, lastSettled, pc, locals, ret>>

vars == <<url, engine, adapter, all, lastSettled, pc, locals, ret, sessions, heap, requests, now, response>>

URLs == {"https://example.com"}

Pending == [state |-> "pending"]

\* null, and the undefined of a slot not yet written: `?.` and `||` treat
\* both alike
Null == [null |-> TRUE]

Settled(p) == p.state # "pending"

\* each adapter promise followed by `.catch(() => null)`
Caught(p) == IF p.state = "fulfilled" THEN p.value ELSE Null

\* a join that gives up the values gathered so far when an input fails
ResolveElementFailFast(pall, c, value) ==
    [values |-> IF value = Null THEN [d \in DOMAIN pall.values |-> Null]
                ELSE [pall.values EXCEPT ![c] = value],
     remaining |-> pall.remaining - 1]

\* a join that fulfils before the last value is stored
ResolveElementDropLast(pall, c, value) ==
    [values |-> IF pall.remaining = 1 THEN pall.values
                ELSE [pall.values EXCEPT ![c] = value],
     remaining |-> pall.remaining - 1]

\* Promise.all records the value of input c in slot c and counts down
ResolveElement(pall, c, value) ==
    [values |-> [pall.values EXCEPT ![c] = value],
     remaining |-> pall.remaining - 1]

\* a join that fulfils with the first input to settle
JoinReadyAny(pall) == pall.remaining < Len(Cats)

\* Promise.all fulfils once every input promise has
JoinReady(pall) == pall.remaining = 0

\* `result?.report?.content?.score || 0`
\* the fallback score of a missing result taken as the full score
ContentScoreFallbackFull(result) ==
    IF result = Null THEN 100 ELSE result.report.content.score

ContentScore(result) == IF result = Null THEN 0 ELSE result.report.content.score

\* `seoResult?.report?.score || 0`
ReportScore(result) == IF result = Null THEN 0 ELSE result.report.score

\* `result?.report?.content || createEmpty...()`
ContentOr(result, empty) == IF result = Null THEN empty ELSE result.report.content

\* `seoResult?.report || createEmptySEOReport()`
ReportOr(result, empty) == IF result = Null THEN empty ELSE result.report

\* the object literal of lines 127-133, from the five destructured results
CategoryScoresOf(results) ==
    [performance |-> ContentScore(results.performanceResult),
     accessibility |-> ContentScore(results.accessibilityResult),
     seo |-> ReportScore(results.seoResult),
     best_practices |-> ContentScore(results.bestPracticesResult),
     pwa |-> ContentScore(results.pwaResult)]

Init ==
    /\ url \in URLs
    /\ engine = Pending
    /\ adapter = [c \in CatSet |-> Pending]
    /\ all = [values |-> [c \in CatSet |-> Null], remaining |-> Len(Cats)]
    /\ lastSettled = "none"
    /\ pc = "awaiting"
    /\ locals = EmptyObject
    /\ ret = Pending
    /\ sessions = EmptyObject
    /\ heap = EmptyObject
    /\ requests = {}
    /\ now = 0
    /\ response = [endpoint |-> "none", status |-> 0, sessionId |-> "",
                   at |-> 0, body |-> Null]

\* the promise of the imported adapter c settles, fulfilled or rejected; its
\* catch handler and the Promise.all bookkeeping run
Settle(c) ==
    /\ adapter[c] = Pending
    /\ \E o \in AdapterOutcomes(c) :
          /\ adapter' = [adapter EXCEPT ![c] = o]
          /\ all' = ResolveElement(all, c, Caught(o))
    /\ lastSettled' = c
    /\ UNCHANGED <<serverVars, url, engine, pc, locals, ret>>

\* the engine call of the PWA adapter settles with e; runPWAAudit resumes and
\* settles, its catch handler and the Promise.all bookkeeping run
SettlePWAWith(e) ==
    /\ adapter["pwa"] = Pending
    /\ engine' = e
    /\ adapter' = [adapter EXCEPT !["pwa"] = runPWAAudit(e)]
    /\ all' = ResolveElement(all, "pwa", Caught(runPWAAudit(e)))
    /\ lastSettled' = "pwa"
    /\ UNCHANGED <<serverVars, url, pc, locals, ret>>

SettlePWA == \E e \in EngineOutcomes : SettlePWAWith(e)

\* lines 97-124: the await resumes
Join ==
    /\ pc = "awaiting"
    /\ JoinReady(all)
    /\ LET values == all.values
       IN  locals' = [performanceResult |-> values["performance"],
                      accessibilityResult |-> values["accessibility"],
                      seoResult |-> values["seo"],
                      bestPracticesResult |-> values["best_practices"],
                      pwaResult |-> values["pwa"]]
    /\ pc' = "category_scores"
    /\ UNCHANGED <<serverVars, url, engine, adapter, all, lastSettled, ret>>

\* one const declaration: bind name, move on to the next statement
Assign(at, name, value, next) ==
    /\ pc = at
    /\ locals' = locals @@ (name :> value)
    /\ pc' = next
    /\ UNCHANGED <<serverVars, url, engine, adapter, all, lastSettled, ret>>

\* lines 127-133
ExtractCategoryScores ==
    Assign("category_scores", "category_scores", CategoryScoresOf(locals),
           "overall_score")

\* lines 137-143
CalculateOverallScore ==
    Assign("overall_score", "overall_score",
           WeightedOverallScore(locals.category_scores), "reports")

\* lines 146-155
ExtractReports ==
    /\ pc = "reports"
    /\ locals' = locals @@
         [performance |-> ContentOr(locals.performanceResult,
                                    createEmptyPerformanceReport),
          accessibility |-> ContentOr(locals.accessibilityResult,
                                      createEmptyAccessibilityReport),
          seo |-> ReportOr(locals.seoResult, createEmptySEOReport),
          best_practices |-> ContentOr(locals.bestPracticesResult,
                                       createEmptyBestPracticesReport),
          pwa |-> ContentOr(locals.pwaResult, createEmptyPWAReport)]
    /\ pc' = "summary"
    /\ UNCHANGED <<serverVars, url, engine, adapter, all, lastSettled, ret>>

\* lines 158-164
CalculateSummary ==
    Assign("summary", "summary",
           calculateSummary(locals.performance, locals.accessibility,
                            locals.seo, locals.best_practices, locals.pwa),
           "cross_category_insights")

\* lines 167-173
GenerateInsights ==
    Assign("cross_category_insights", "cross_category_insights",
           generateCrossCategoryInsights(locals.performance,
               locals.accessibility, locals.seo, locals.best_practices,
               locals.pwa),
           "prioritized_action_items")

\* lines 176-183
GenerateActionItems ==
    Assign("prioritized_action_items", "prioritized_action_items",
           generatePrioritizedActionItems(locals.performance,
               locals.accessibility, locals.seo, locals.best_practices,
               locals.pwa, locals.cross_category_insights),
           "quick_wins")

\* the quick wins computed right after the reports, ahead of the summary
GenerateQuickWinsEarly ==
    /\ pc = "summary"
    /\ ~Has(locals, "quick_wins")
    /\ locals' = locals @@
         ("quick_wins" :>
             generateQuickWins(locals.performance, locals.accessibility,
                               locals.seo, locals.best_practices, locals.pwa))
    /\ pc' = pc
    /\ UNCHANGED <<serverVars, url, engine, adapter, all, lastSettled, ret>>

\* lines 186-192
GenerateQuickWins ==
    Assign("quick_wins", "quick_wins",
           generateQuickWins(locals.performance, locals.accessibility,
                             locals.seo, locals.best_practices, locals.pwa),
           "return")

\* lines 194-208
Return ==
    /\ pc = "return"
    /\ ret' = Fulfilled(
         [url |-> url,
          overall_score |-> locals.overall_score,
          category_scores |-> locals.category_scores,
          performance |-> locals.performance,
          accessibility |-> locals.accessibility,
          seo |-> locals.seo,
          best_practices |-> locals.best_practices,
          pwa |-> locals.pwa,
          cross_category_insights |-> locals.cross_category_insights,
          prioritized_action_items |-> locals.prioritized_action_items,
          quick_wins |-> locals.quick_wins,
          summary |-> locals.summary])
    /\ pc' = "done"
    /\ UNCHANGED <<serverVars, url, engine, adapter, all, lastSettled, locals>>

Next ==
    \/ \E c \in CatSet \ {"pwa"} : Settle(c)
    \/ SettlePWA
    \/ Join
    \/ ExtractCategoryScores
    \/ CalculateOverallScore
    \/ ExtractReports
    \/ CalculateSummary
    \/ GenerateInsights
    \/ GenerateActionItems
    \/ GenerateQuickWins
    \/ Return

Spec == Init /\ [][Next]_vars

(***************************************************************************)
(* The PWA adapter on its own, over every engine response built from up to *)
(* MaxRefs audit references, none repeated, of RefIds and any audits for   *)
(* these ids.                                                              *)
(***************************************************************************)
MaxRefs == 2

RefIds == {"installable-manifest", "service-worker", "viewport"}

\* score and display mode of an audit; 50, 51, 70 and 71 surround the two
\* severity thresholds
AuditKinds ==
    [score : {NullScore, 0, 50, 51, 70, 71, 100}, mode : {"binary"}]
      \cup [score : {NullScore, 0, 100},
            mode : {"manual", "informative", "notApplicable"}]

\* the result has no audit of this id
Absent == [score |-> NullScore, mode |-> "absent"]

\* the entry of audit `id` in result.audits, if any
AuditEntry(id, kind) ==
    IF kind = Absent THEN EmptyObject
    ELSE id :> Audit(kind.score, kind.mode, id)

AuditMaps ==
    { AuditEntry("installable-manifest", k1)
        @@ AuditEntry("service-worker", k2)
        @@ AuditEntry("viewport", k3) :
          k1, k2, k3 \in AuditKinds \cup {Absent} }

RefSequences ==
    UNION { {r \in [1..n -> RefIds] :
                \A i, j \in 1..n : r[i] = r[j] => i = j} : n \in 0..MaxRefs }

CategoryScores == {NullScore, 85}

\* the engine answers with a result that has the pwa category
EngineReturnsCategory ==
    /\ adapter["pwa"] = Pending
    /\ \E sc \in CategoryScores, refs \in RefSequences, a \in AuditMaps :
          SettlePWAWith(Fulfilled(
              [categories |-> [pwa |-> [score |-> sc, auditRefs |-> refs]],
               audits |-> a]))

\* the engine answers with a result that has no pwa category
EngineReturnsNoCategory ==
    /\ adapter["pwa"] = Pending
    /\ \E a \in AuditMaps :
          SettlePWAWith(Fulfilled([categories |-> EmptyObject, audits |-> a]))

\* the engine throws
EngineFails == SettlePWAWith(Rejected("Lighthouse audit failed"))

PwaNext == EngineReturnsCategory \/ EngineReturnsNoCategory \/ EngineFails

PwaSpec == Init /\ [][PwaNext]_vars


(***************************************************************************)
(* The session endpoints of the HTTP server (part_001, lines 131-491).     *)
(* Every handler runs to its response or to its await in one step; the     *)
(* continuation after the await is a second step.  A session is an object: *)
(* the map and a suspended handler may hold the same one.                  *)
(***************************************************************************)
MaxTime == 6

SessionIds == {"s1"}

\* a string that is undefined, null or empty: the values `!x` is true of
Missing == ""

\* what runComprehensiveSiteAnalysis resolves with, given what the five
\* adapters settled with (lines 126-208)
runComprehensiveSiteAnalysis(u, values) ==
    LET results == [performanceResult |-> values["performance"],
                    accessibilityResult |-> values["accessibility"],
                    seoResult |-> values["seo"],
                    bestPracticesResult |-> values["best_practices"],
                    pwaResult |-> values["pwa"]]
        category_scores == CategoryScoresOf(results)
        performance == ContentOr(results.performanceResult,
                                 createEmptyPerformanceReport)
        accessibility == ContentOr(results.accessibilityResult,
                                   createEmptyAccessibilityReport)
        seo == ReportOr(results.seoResult, createEmptySEOReport)
        best_practices == ContentOr(results.bestPracticesResult,
                                    createEmptyBestPracticesReport)
        pwa == ContentOr(results.pwaResult, createEmptyPWAReport)
        insights == generateCrossCategoryInsights(performance, accessibility,
                        seo, best_practices, pwa)
    IN  [url |-> u,
         overall_score |-> WeightedOverallScore(category_scores),
         category_scores |-> category_scores,
         performance |-> performance,
         accessibility |-> accessibility,
         seo |-> seo,
         best_practices |-> best_practices,
         pwa |-> pwa,
         cross_category_insights |-> insights,
         prioritized_action_items |->
             generatePrioritizedActionItems(performance, accessibility, seo,
                 best_practices, pwa, insights),
         quick_wins |-> generateQuickWins(performance, accessibility, seo,
                            best_practices, pwa),
         summary |-> calculateSummary(performance, accessibility, seo,
                         best_practices, pwa)]

\* the five values the audits of one request settle with, after their catch
\* handlers: every adapter failed; every report clean; all five degraded;
\* two failures among three reports
AuditResultSamples ==
    LET perf(n) == [report |-> [content |->
                       CHOOSE r \in PerformanceReports : r.score = n]]
        a11y(n) == [report |-> [content |->
                       CHOOSE r \in AccessibilityReports : r.score = n]]
        seo(n)  == [report |-> CHOOSE r \in SEOReports : r.score = n]
        bp(n)   == [report |-> [content |->
                       CHOOSE r \in BestPracticesReports : r.score = n]]
        pwa(n)  == Caught(runPWAAudit(Fulfilled(
                       CHOOSE r \in LighthouseResults :
                          /\ Has(r.categories, "pwa")
                          /\ r.categories["pwa"].score = n)))
        five(p, a, s, b, w) ==
            [c \in CatSet |->
                CASE c = "performance" -> p
                  [] c = "accessibility" -> a
                  [] c = "seo" -> s
                  [] c = "best_practices" -> b
                  [] c = "pwa" -> w]
    IN  {five(Null, Null, Null, Null, Null),
         five(perf(100), a11y(100), seo(100), bp(100), pwa(100)),
         five(perf(62), a11y(58), seo(73), bp(46), pwa(25)),
         five(perf(45), Null, seo(73), bp(83), Null)}

\* `result?.report?.content?.score || 0`
OptionalContentScore(result) ==
    IF result = Null THEN 0
    ELSE IF ~Has(result.report, "content") THEN 0
    ELSE result.report.content.score

\* the scores object of GET /session/:id/lighthouse (lines 326-332)
LighthouseScores(values) ==
    ("performance" :> OptionalContentScore(values["performance"]))
      @@ ("accessibility" :> OptionalContentScore(values["accessibility"]))
      @@ ("seo" :> OptionalContentScore(values["seo"]))
      @@ ("best-practices" :> OptionalContentScore(values["best_practices"]))
      @@ ("pwa" :> OptionalContentScore(values["pwa"]))

\* the session object of lines 154-163
NewSession(sessionId, time) ==
    [sessionId |-> sessionId, headless |-> TRUE, slowMo |-> 0, url |-> Missing,
     consoleLogs |-> <<>>, lighthouseResults |-> Null, created |-> time,
     lastActivity |-> time]

\* Map.prototype.set and Map.prototype.delete
MapSet(map, key, value) == (key :> value) @@ map

MapDelete(map, key) == [k \in DOMAIN map \ {key} |-> map[k]]

\* res.status(status).json(body) at the time now + 1
Respond(endpoint, status, sessionId, body) ==
    response' = [endpoint |-> endpoint, status |-> status,
                 sessionId |-> sessionId, at |-> now + 1, body |-> body]

\* a handler is entered: the clock advances
Enter ==
    /\ now < MaxTime
    /\ now' = now + 1


(***************************************************************************)
(* Properties.                                                             *)
(***************************************************************************)
(* The handlers of the session endpoints.                                  *)
(***************************************************************************)
\* the existing session replaced by a fresh one before the 409 is sent
SessionStartOverwrite(sessionId) ==
    /\ Enter
    /\ IF sessionId = Missing
       THEN /\ Respond("start", 400, sessionId, Null)
            /\ UNCHANGED <<sessions, heap>>
       ELSE /\ heap' = heap @@ ((now + 1) :> NewSession(sessionId, now + 1))
            /\ sessions' = MapSet(sessions, sessionId, now + 1)
            /\ IF Has(sessions, sessionId)
               THEN Respond("start", 409, sessionId, Null)
               ELSE Respond("start", 200, sessionId, Null)
    /\ UNCHANGED <<requests, coreVars>>

\* POST /session/start (lines 132-181)
SessionStart(sessionId) ==
    /\ Enter
    /\ IF sessionId = Missing
       THEN /\ Respond("start", 400, sessionId, Null)
            /\ UNCHANGED <<sessions, heap>>
       ELSE IF Has(sessions, sessionId)
       THEN /\ Respond("start", 409, sessionId, Null)
            /\ UNCHANGED <<sessions, heap>>
       ELSE /\ heap' = heap @@ ((now + 1) :> NewSession(sessionId, now + 1))
            /\ sessions' = MapSet(sessions, sessionId, now + 1)
            /\ Respond("start", 200, sessionId, Null)
    /\ UNCHANGED <<requests, coreVars>>

\* POST /session/:id/navigate (lines 184-231)
SessionNavigate(sessionId, bodyUrl) ==
    /\ Enter
    /\ IF bodyUrl = Missing
       THEN /\ Respond("navigate", 400, sessionId, Null)
            /\ UNCHANGED <<sessions, heap>>
       ELSE IF ~Has(sessions, sessionId)
       THEN /\ Respond("navigate", 404, sessionId, Null)
            /\ UNCHANGED <<sessions, heap>>
       ELSE LET session == sessions[sessionId]
            IN  /\ heap' = [heap EXCEPT ![session].url = bodyUrl,
                                        ![session].lastActivity = now + 1]
                /\ sessions' = MapSet(sessions, sessionId, session)
                /\ Respond("navigate", 200, sessionId, Null)
    /\ UNCHANGED <<requests, coreVars>>

\* GET /session/:id/console (lines 234-263)
SessionConsole(sessionId) ==
    /\ Enter
    /\ IF ~Has(sessions, sessionId)
       THEN /\ Respond("console", 404, sessionId, Null)
            /\ UNCHANGED <<sessions, heap>>
       ELSE LET session == sessions[sessionId]
            IN  /\ heap' = [heap EXCEPT ![session].lastActivity = now + 1]
                /\ sessions' = MapSet(sessions, sessionId, session)
                /\ Respond("console", 200, sessionId, Null)
    /\ UNCHANGED <<requests, coreVars>>

\* GET /session/:id/lighthouse up to its await (lines 267-320): no response
\* is sent yet when the audits are started
SessionLighthouse(sessionId) ==
    /\ Enter
    /\ IF ~Has(sessions, sessionId)
       THEN /\ Respond("lighthouse", 404, sessionId, Null)
            /\ UNCHANGED <<sessions, heap, requests>>
       ELSE IF heap[sessions[sessionId]].url = Missing
       THEN /\ Respond("lighthouse", 400, sessionId, Null)
            /\ UNCHANGED <<sessions, heap, requests>>
       ELSE LET session == sessions[sessionId]
            IN  /\ heap' = [heap EXCEPT ![session].lastActivity = now + 1]
                /\ sessions' = MapSet(sessions, sessionId, session)
                /\ requests' = requests \cup
                      {[endpoint |-> "lighthouse", sessionId |-> sessionId,
                        session |-> session, url |-> heap[session].url,
                        at |-> now + 1]}
                /\ UNCHANGED response
    /\ UNCHANGED coreVars

\* GET /session/:id/lighthouse after its await (lines 322-386): the five
\* audits have settled with `values`
LighthouseSettled(r, values) ==
    /\ r \in requests
    /\ r.endpoint = "lighthouse"
    /\ Enter
    /\ heap' = [heap EXCEPT ![r.session].lighthouseResults =
                  [scores |-> LighthouseScores(values),
                   details |-> [performance |-> values["performance"],
                                accessibility |-> values["accessibility"],
                                seo |-> values["seo"],
                                bestPractices |-> values["best_practices"],
                                pwa |-> values["pwa"]],
                   timestamp |-> now + 1]]
    /\ sessions' = MapSet(sessions, r.sessionId, r.session)
    /\ requests' = requests \ {r}
    /\ Respond("lighthouse", 200, r.sessionId, LighthouseScores(values))
    /\ UNCHANGED coreVars

\* POST /session/:id/close (lines 412-442)
SessionClose(sessionId) ==
    /\ Enter
    /\ IF ~Has(sessions, sessionId)
       THEN /\ Respond("close", 404, sessionId, Null)
            /\ UNCHANGED sessions
       ELSE /\ sessions' = MapDelete(sessions, sessionId)
            /\ Respond("close", 200, sessionId, Null)
    /\ UNCHANGED <<heap, requests, coreVars>>

\* POST /session/:id/comprehensive-analysis up to its await (lines 445-471)
SessionAnalysis(sessionId, bodyUrl) ==
    /\ Enter
    /\ IF bodyUrl = Missing
       THEN /\ Respond("comprehensive-analysis", 400, sessionId, Null)
            /\ UNCHANGED requests
       ELSE IF ~Has(sessions, sessionId)
       THEN /\ Respond("comprehensive-analysis", 404, sessionId, Null)
            /\ UNCHANGED requests
       ELSE /\ requests' = requests \cup
                  {[endpoint |-> "comprehensive-analysis",
                    sessionId |-> sessionId, session |-> sessions[sessionId],
                    url |-> bodyUrl, at |-> now + 1]}
            /\ UNCHANGED response
    /\ UNCHANGED <<sessions, heap, coreVars>>

\* POST /session/:id/comprehensive-analysis after its await (lines 471-481)
AnalysisSettled(r, values) ==
    /\ r \in requests
    /\ r.endpoint = "comprehensive-analysis"
    /\ Enter
    /\ LET analysis == runComprehensiveSiteAnalysis(r.url, values)
       IN  /\ heap' = [heap EXCEPT ![r.session] =
                         ("comprehensiveAnalysis" :> analysis) @@ @]
           /\ Respond("comprehensive-analysis", 200, r.sessionId, analysis)
    /\ requests' = requests \ {r}
    /\ UNCHANGED <<sessions, coreVars>>

SessionNext ==
    \/ \E sessionId \in SessionIds \cup {Missing} : SessionStart(sessionId)
    \/ \E sessionId \in SessionIds, bodyUrl \in URLs \cup {Missing} :
          SessionNavigate(sessionId, bodyUrl)
    \/ \E sessionId \in SessionIds : SessionConsole(sessionId)
    \/ \E sessionId \in SessionIds : SessionLighthouse(sessionId)
    \/ \E r \in requests, values \in AuditResultSamples :
          LighthouseSettled(r, values)
    \/ \E sessionId \in SessionIds : SessionClose(sessionId)
    \/ \E sessionId \in SessionIds, bodyUrl \in URLs \cup {Missing} :
          SessionAnalysis(sessionId, bodyUrl)
    \/ \E r \in requests, values \in AuditResultSamples :
          AnalysisSettled(r, values)

SessionSpec == Init /\ [][SessionNext]_vars


(***************************************************************************)
Done == pc = "done"

\* the analysis the call resolved with
analysis == ret.value

AllSettled == \A c \in CatSet : Settled(adapter[c])

Failed(c) == adapter[c].state = "rejected"

Succeeded(c) == adapter[c].state = "fulfilled"

\* the report adapter c settled with
AdapterReport(c) ==
    IF c = "seo" THEN adapter[c].value.report
    ELSE adapter[c].value.report.content

\* the issue list of a category report
IssuesOf(c, report) ==
    CASE c = "performance"   -> report.opportunities
      [] c = "accessibility" -> report.violations
      [] OTHER               -> report.issues

\* round to nearest of the exact weighted sum, ties away from zero
ExactWeightedRound(cs) ==
    (30 * cs.performance + 25 * cs.accessibility + 25 * cs.seo
       + 15 * cs.best_practices + 5 * cs.pwa + 50) \div 100

\* C1: overall_score is the exact weighted sum of the five category scores
\* (weights 30, 25, 25, 15, 5 hundredths, summing to 100 hundredths) rounded
\* to the nearest integer, ties away from zero, and lies in 0..100.
C1_OverallScoreExactRound ==
    Done =>
      /\ 30 + 25 + 25 + 15 + 5 = 100
      /\ analysis.overall_score = ExactWeightedRound(analysis.category_scores)
      /\ analysis.overall_score \in 0..100

\* C2 as stated: when all five adapters fail the call succeeds, all scores
\* and overall_score are 0 and every list is empty (issue lists, insights,
\* action items, quick wins).
C2_AllFailEverythingEmpty ==
    (Done /\ \A c \in CatSet : Failed(c)) =>
      /\ ret.state = "fulfilled"
      /\ \A c \in CatSet : analysis.category_scores[c] = 0
      /\ analysis.overall_score = 0
      /\ \A c \in CatSet : IssuesOf(c, analysis[c]) = <<>>
      /\ analysis.cross_category_insights = <<>>
      /\ analysis.prioritized_action_items = <<>>
      /\ analysis.quick_wins = <<>>

\* C2 amended: when all five adapters fail the call succeeds, all scores and
\* overall_score are 0, every category issue list and quick_wins are empty,
\* cross_category_insights holds exactly the "pwa-capabilities-missing"
\* insight and prioritized_action_items exactly the "Implement Progressive
\* Web App features" item, at rank 1.
C2_AllFailDegraded ==
    (Done /\ \A c \in CatSet : Failed(c)) =>
      /\ ret.state = "fulfilled"
      /\ \A c \in CatSet : analysis.category_scores[c] = 0
      /\ analysis.overall_score = 0
      /\ \A c \in CatSet : IssuesOf(c, analysis[c]) = <<>>
      /\ analysis.quick_wins = <<>>
      /\ Len(analysis.cross_category_insights) = 1
      /\ analysis.cross_category_insights[1].id = "pwa-capabilities-missing"
      /\ Len(analysis.prioritized_action_items) = 1
      /\ analysis.prioritized_action_items[1].title
            = "Implement Progressive Web App features"
      /\ analysis.prioritized_action_items[1].rank = 1

C2_Witness == Done /\ \A c \in CatSet : Failed(c)

ZeroCounts(counts) ==
    /\ counts.failed = 0 /\ counts.passed = 0 /\ counts.manual = 0
    /\ counts.informative = 0 /\ counts.not_applicable = 0

\* the canonical empty report of category c: score 0, the five buckets 0, no
\* issues, the extensions false, zero or empty
IsCanonicalEmpty(c, r) ==
    /\ r.score = 0
    /\ ZeroCounts(r.audit_counts)
    /\ IssuesOf(c, r) = <<>>
    /\ CASE c = "performance" ->
              /\ DOMAIN r.core_web_vitals = {}
              /\ r.metrics = <<>> /\ r.diagnostics = <<>>
         [] c = "accessibility" ->
              r.incomplete = <<>> /\ r.manual_checks = <<>>
         [] c = "seo" -> DOMAIN r.categories = {}
         [] c = "best_practices" -> TRUE
         [] c = "pwa" ->
              /\ ~r.installability.is_installable
              /\ ~r.installability.has_manifest
              /\ ~r.installability.has_service_worker
              /\ ~r.installability.has_icons
              /\ r.installability.issues = <<>>
              /\ ~r.offline_support /\ ~r.fast_reliable /\ ~r.optimized

\* C3: for each category on its own, if its adapter raised (either error),
\* its report in the final analysis is the canonical empty report.
C3_FailedCategoryIsEmptyReport ==
    Done => \A c \in CatSet : Failed(c) => IsCanonicalEmpty(c, analysis[c])

\* both error kinds in one run, next to adapters that succeeded
C3_Witness ==
    /\ Done
    /\ \E c \in CatSet : Succeeded(c)
    /\ Failed("pwa")
    /\ adapter["pwa"].message
          = "PWA audit failed: PWA category not found in Lighthouse result"
    /\ Failed("performance")
    /\ adapter["performance"].message = "Lighthouse audit failed"

\* C4: nothing downstream of the join has started, and the call has not
\* returned, unless all five adapters have settled.
C4_FullBarrier ==
    (pc # "awaiting" \/ DOMAIN locals # {} \/ ret # Pending) => AllSettled

\* the join has just let the function through, after failures and successes
C4_Witness ==
    /\ pc = "category_scores"
    /\ \E c \in CatSet : Failed(c)
    /\ \E c \in CatSet : Succeeded(c)
    /\ lastSettled # "pwa"

\* C5: whatever set of adapters fails, the call succeeds and the report of
\* every adapter that did not fail is in the analysis unchanged; when the SEO
\* adapter failed its score is 0, its issue list empty and the overall score
\* the weighted sum with the SEO term 0.
C5_FailureDoesNotInterruptOthers ==
    Done =>
      /\ ret.state = "fulfilled"
      /\ AllSettled
      /\ \A c \in CatSet : Succeeded(c) =>
            /\ analysis[c] = AdapterReport(c)
            /\ analysis.category_scores[c] = AdapterReport(c).score
      /\ Failed("seo") =>
            /\ analysis.category_scores.seo = 0
            /\ analysis.seo.issues = <<>>
            /\ analysis.overall_score = WeightedOverallScore(
                 [c \in CatSet |-> IF Succeeded(c) /\ c # "seo"
                                   THEN AdapterReport(c).score ELSE 0])

\* scenario D: only the SEO adapter fails
C5_Witness ==
    /\ Done
    /\ Failed("seo")
    /\ \A c \in CatSet \ {"seo"} : Succeeded(c)
    /\ analysis.overall_score > 0

\* the report downstream stages see for adapter c
DegradedReport(c) ==
    IF Succeeded(c) THEN AdapterReport(c)
    ELSE CASE c = "performance"    -> createEmptyPerformanceReport
           [] c = "accessibility"  -> createEmptyAccessibilityReport
           [] c = "seo"            -> createEmptySEOReport
           [] c = "best_practices" -> createEmptyBestPracticesReport
           [] c = "pwa"            -> createEmptyPWAReport

\* C6: the insight list is a function of the five adapter outcomes alone,
\* the same in every order in which the adapters complete.
C6_InsightsOrderIndependent ==
    Done =>
      analysis.cross_category_insights =
        generateCrossCategoryInsights(
          DegradedReport("performance"), DegradedReport("accessibility"),
          DegradedReport("seo"), DegradedReport("best_practices"),
          DegradedReport("pwa"))

\* the adapters completed out of position order and several rules fired
C6_Witness ==
    /\ Done
    /\ lastSettled = "performance"
    /\ Len(analysis.cross_category_insights) >= 3

NonIncreasingRoi(items) ==
    \A k \in 1..(Len(items) - 1) : items[k].roi_score >= items[k+1].roi_score

\* C7: at most 10 action items, non-increasing in roi_score; at most 6 quick
\* wins.
C7_ListBounds ==
    Done =>
      /\ Len(analysis.prioritized_action_items) <= 10
      /\ NonIncreasingRoi(analysis.prioritized_action_items)
      /\ Len(analysis.quick_wins) <= 6

\* every action candidate and every quick win is emitted
C7_Witness ==
    /\ Done
    /\ Len(analysis.prioritized_action_items) = 5
    /\ Len(analysis.quick_wins) = 6

\* position in the candidate table of an emitted item
CandidateIndex(item) ==
    CASE item.roi_score = 95 -> 1
      [] item.roi_score = 90 -> 2
      [] item.roi_score = 85 -> 3
      [] item.roi_score = 80 -> 4
      [] item.roi_score = 70 -> 5

\* C8: the item at position k has rank k, and of two items the one of higher
\* roi_score comes first, candidates of equal roi_score in table order.
C8_DenseRanksStableOrder ==
    Done =>
      LET items == analysis.prioritized_action_items
      IN  /\ \A k \in 1..Len(items) : items[k].rank = k
          /\ \A i, j \in 1..Len(items) : i < j =>
                \/ items[i].roi_score > items[j].roi_score
                \/ /\ items[i].roi_score = items[j].roi_score
                   /\ CandidateIndex(items[i]) < CandidateIndex(items[j])

C8_Witness ==
    /\ Done
    /\ Len(analysis.prioritized_action_items) = 3
    /\ analysis.prioritized_action_items[3].roi_score = 70

HasCriticalHttpsIssue(bp) ==
    \E k \in 1..Len(bp.issues) :
        bp.issues[k].id = "is-on-https" /\ bp.issues[k].severity = "critical"

\* C9: a critical "is-on-https" best-practices issue puts the item "Migrate
\* to HTTPS" (effort medium, roi_score 95) at rank 1, first in the list,
\* whatever the other gates.
C9_HttpsRanksFirst ==
    (Done /\ HasCriticalHttpsIssue(analysis.best_practices)) =>
      LET items == analysis.prioritized_action_items
      IN  /\ Len(items) >= 1
          /\ items[1].title = "Migrate to HTTPS"
          /\ items[1].effort = "medium"
          /\ items[1].roi_score = 95
          /\ items[1].rank = 1

\* the HTTPS item next to all four other candidates
C9_Witness ==
    /\ Done
    /\ HasCriticalHttpsIssue(analysis.best_practices)
    /\ Len(analysis.prioritized_action_items) = 5
    /\ analysis.prioritized_action_items[5].title
          = "Implement Progressive Web App features"

ScenarioA ==
    /\ Done
    /\ \A c \in CatSet :
          /\ Succeeded(c)
          /\ AdapterReport(c).score = 100
          /\ IssuesOf(c, AdapterReport(c)) = <<>>

\* C10: scenario A: five successes with score 100 and no issues give
\* overall_score 100, no insights, no action items, no quick wins and
\* total_issues 0.
C10_ScenarioA ==
    ScenarioA =>
      /\ analysis.overall_score = 100
      /\ analysis.cross_category_insights = <<>>
      /\ analysis.prioritized_action_items = <<>>
      /\ analysis.quick_wins = <<>>
      /\ analysis.summary.total_issues = 0

C10_Witness == ScenarioA /\ analysis.summary.passed_audits > 0


\* the insights of the analysis that carry the given id
InsightsWithId(id) ==
    {k \in 1..Len(analysis.cross_category_insights) :
        analysis.cross_category_insights[k].id = id}

\* C11: the insight "large-images-multi-impact" (impact serious, categories
\* performance, accessibility, seo) is in the list if and only if performance
\* has an opportunity "uses-optimized-images" and accessibility a violation
\* "image-alt".
C11_InsightRule1 ==
    Done =>
      /\ InsightsWithId("large-images-multi-impact") # {}
           <=> /\ \E k \in 1..Len(analysis.performance.opportunities) :
                     analysis.performance.opportunities[k].id
                        = "uses-optimized-images"
               /\ \E k \in 1..Len(analysis.accessibility.violations) :
                     analysis.accessibility.violations[k].id = "image-alt"
      /\ \A k \in InsightsWithId("large-images-multi-impact") :
            /\ analysis.cross_category_insights[k].impact = "serious"
            /\ analysis.cross_category_insights[k].affected_categories
                  = <<"performance", "accessibility", "seo">>

\* scenario B
C11_Witness ==
    /\ Done
    /\ InsightsWithId("large-images-multi-impact") # {}
    /\ Succeeded("performance") /\ Succeeded("accessibility")

\* C12: the insight "pwa-capabilities-missing" (impact moderate, categories
\* pwa, performance) is in the list if and only if the PWA report is not
\* installable, the performance score is below 70 and the PWA report has no
\* offline support, on the reports as degraded; the canonical empty PWA and
\* performance reports satisfy it.
C12_InsightRule3 ==
    Done =>
      /\ InsightsWithId("pwa-capabilities-missing") # {}
           <=> /\ analysis.pwa.installability.is_installable = FALSE
               /\ analysis.performance.score < 70
               /\ analysis.pwa.offline_support = FALSE
      /\ \A k \in InsightsWithId("pwa-capabilities-missing") :
            /\ analysis.cross_category_insights[k].impact = "moderate"
            /\ analysis.cross_category_insights[k].affected_categories
                  = <<"pwa", "performance">>
      /\ (Failed("pwa") /\ Failed("performance"))
            => InsightsWithId("pwa-capabilities-missing") # {}

\* a slow page, not installable, whose service worker gives offline support:
\* the rule stays silent
C12_Witness ==
    /\ Done
    /\ Succeeded("pwa") /\ Succeeded("performance")
    /\ ~analysis.pwa.installability.is_installable
    /\ analysis.pwa.offline_support
    /\ analysis.performance.score < 70
    /\ InsightsWithId("pwa-capabilities-missing") = {}

\* C13: the insight "https-security-seo" (impact critical, categories
\* best_practices, seo) is in the list if and only if best-practices has an
\* issue "is-on-https", of any severity, and SEO an issue of category
\* "crawlability".
C13_InsightRule4 ==
    Done =>
      /\ InsightsWithId("https-security-seo") # {}
           <=> /\ \E k \in 1..Len(analysis.best_practices.issues) :
                     analysis.best_practices.issues[k].id = "is-on-https"
               /\ \E k \in 1..Len(analysis.seo.issues) :
                     analysis.seo.issues[k].category = "crawlability"
      /\ \A k \in InsightsWithId("https-security-seo") :
            /\ analysis.cross_category_insights[k].impact = "critical"
            /\ analysis.cross_category_insights[k].affected_categories
                  = <<"best_practices", "seo">>

\* the HTTPS issue is there with a severity other than critical
C13_Witness ==
    /\ Done
    /\ InsightsWithId("https-security-seo") # {}
    /\ \A k \in 1..Len(analysis.best_practices.issues) :
          analysis.best_practices.issues[k].severity # "critical"


\* position in the rule table of the insight with the given id
RuleIndex(id) ==
    CASE id = "large-images-multi-impact"  -> 1
      [] id = "mobile-optimization-needed" -> 2
      [] id = "pwa-capabilities-missing"   -> 3
      [] id = "https-security-seo"         -> 4
      [] id = "semantic-html-structure"    -> 5

\* the predicate of rule n on the reports of the analysis
RuleHolds(n) ==
    CASE n = 1 -> InsightGate1(analysis.performance, analysis.accessibility)
      [] n = 2 -> InsightGate2(analysis.performance, analysis.seo)
      [] n = 3 -> InsightGate3(analysis.performance, analysis.pwa)
      [] n = 4 -> InsightGate4(analysis.seo, analysis.best_practices)
      [] n = 5 -> InsightGate5(analysis.accessibility, analysis.seo)

\* C14: every rule is evaluated on its own: rule n has its insight in the
\* list exactly when its predicate holds, whatever the other rules did; the
\* list has at most 5 entries, of pairwise distinct ids, in rule-table order.
C14_RulesIndependentInTableOrder ==
    Done =>
      LET ins == analysis.cross_category_insights
      IN  /\ Len(ins) <= 5
          /\ \A i, j \in 1..Len(ins) :
                i < j => RuleIndex(ins[i].id) < RuleIndex(ins[j].id)
          /\ \A n \in 1..5 :
                (\E k \in 1..Len(ins) : RuleIndex(ins[k].id) = n)
                   <=> RuleHolds(n)

\* all five rules fire; the critical insight of rule 4 stays behind the
\* serious and moderate ones of rules 1 to 3
C14_Witness ==
    /\ Done
    /\ Len(analysis.cross_category_insights) = 5
    /\ analysis.cross_category_insights[4].impact = "critical"
    /\ analysis.cross_category_insights[1].impact = "serious"

\* the quick-win rule table: title, category and the issue id that gates it
QuickWinTable ==
    << [title |-> "Add meta description", category |-> "seo",
        id |-> "meta-description"],
       [title |-> "Add alt text to images", category |-> "accessibility",
        id |-> "image-alt"],
       [title |-> "Enable Gzip/Brotli compression", category |-> "performance",
        id |-> "uses-text-compression"],
       [title |-> "Add viewport meta tag", category |-> "seo",
        id |-> "viewport"],
       [title |-> "Add descriptive page title", category |-> "seo",
        id |-> "document-title"],
       [title |-> "Fix color contrast issues", category |-> "accessibility",
        id |-> "color-contrast"] >>

\* the gate of a quick-win rule on the reports of the analysis
QuickWinGate(rule) ==
    \E k \in 1..Len(IssuesOf(rule.category, analysis[rule.category])) :
        IssuesOf(rule.category, analysis[rule.category])[k].id = rule.id

\* C15: quick_wins is the subsequence, in table order, of the six rules
\* whose issue id is present in the rule's category; an accessibility
\* violation "color-contrast" gives the entry "Fix color contrast issues" of
\* category accessibility.
C15_QuickWinsAreGatedSubsequence ==
    Done =>
      LET expected == SelectSeq(QuickWinTable, QuickWinGate)
          qw       == analysis.quick_wins
      IN  /\ Len(qw) = Len(expected)
          /\ \A k \in 1..Len(qw) :
                /\ qw[k].title = expected[k].title
                /\ qw[k].category = expected[k].category
          /\ (\E k \in 1..Len(analysis.accessibility.violations) :
                 analysis.accessibility.violations[k].id = "color-contrast")
               => \E k \in 1..Len(qw) :
                     /\ qw[k].title = "Fix color contrast issues"
                     /\ qw[k].category = "accessibility"

\* scenario E next to a SEO quick win: the rules of one category are not
\* adjacent in the output
C15_Witness ==
    /\ Done
    /\ Len(analysis.quick_wins) = 5
    /\ analysis.quick_wins[2].category = "accessibility"
    /\ analysis.quick_wins[3].category = "seo"
    /\ analysis.quick_wins[5].title = "Fix color contrast issues"

\* the severity or impact of an issue of category c
SeverityOf(c, issue) ==
    IF c \in {"best_practices", "pwa"} THEN issue.severity ELSE issue.impact

CriticalCount(c) ==
    Cardinality({k \in 1..Len(IssuesOf(c, analysis[c])) :
                    SeverityOf(c, IssuesOf(c, analysis[c])[k]) = "critical"})

\* f summed over the five categories
SumOverCats(f) ==
    f["performance"] + f["accessibility"] + f["seo"] + f["best_practices"]
      + f["pwa"]

\* C16: total_audits is the sum of passed + failed over the five categories
\* (manual, informative and not-applicable audits left out) and equals
\* passed_audits + failed_audits; total_issues is the sum of the five issue
\* list lengths; critical_issues counts the issues whose severity or impact
\* is critical, so it is at most total_issues.
C16_SummaryTotals ==
    Done =>
      LET sm == analysis.summary
      IN  /\ sm.total_audits =
                SumOverCats([c \in CatSet |-> analysis[c].audit_counts.passed
                                            + analysis[c].audit_counts.failed])
          /\ sm.total_audits = sm.passed_audits + sm.failed_audits
          /\ sm.total_issues =
                SumOverCats([c \in CatSet |-> Len(IssuesOf(c, analysis[c]))])
          /\ sm.critical_issues =
                SumOverCats([c \in CatSet |-> CriticalCount(c)])
          /\ sm.critical_issues <= sm.total_issues

\* critical and non-critical issues in every category, and audits of the
\* buckets that are left out
C16_Witness ==
    /\ Done
    /\ \A c \in CatSet : CriticalCount(c) > 0
    /\ analysis.summary.critical_issues < analysis.summary.total_issues
    /\ \A c \in CatSet \ {"pwa"} :
          analysis[c].audit_counts.manual + analysis[c].audit_counts.informative
            + analysis[c].audit_counts.not_applicable > 0


(***************************************************************************)
(* Properties of the PWA adapter, over PwaSpec.                            *)
(***************************************************************************)
pwaContent == adapter["pwa"].value.report.content

engineResult == engine.value

\* the positions of auditRefs whose id has an audit in the result
ProcessedRefs ==
    LET refs == engineResult.categories["pwa"].auditRefs
    IN  {k \in 1..Len(refs) : refs[k] \in DOMAIN engineResult.audits}

\* C17: the severity of a PWA issue follows from the score of its audit alone:
\* score 0 is critical; any other non-null score up to and including 0.5 is
\* serious; a non-null score above 0.7 is minor; everything else, a null
\* score or a score above 0.5 and up to and including 0.7, is moderate.
C17_SeverityFromScore ==
    Succeeded("pwa") =>
      \A k \in 1..Len(pwaContent.issues) :
         LET issue == pwaContent.issues[k]
             score == engineResult.audits[issue.id].score
         IN  /\ issue.score = score
             /\ (score = 0) => issue.severity = "critical"
             /\ (score \in 1..50) => issue.severity = "serious"
             /\ (score \in 71..99) => issue.severity = "minor"
             /\ (score = NullScore \/ score \in 51..70)
                   => issue.severity = "moderate"

\* one issue at exactly 0.5, serious, beside one at exactly 0.7, moderate
C17_Witness ==
    /\ Succeeded("pwa")
    /\ \E j, k \in 1..Len(pwaContent.issues) :
          /\ pwaContent.issues[j].score = 50
          /\ pwaContent.issues[j].severity = "serious"
          /\ pwaContent.issues[k].score = 70
          /\ pwaContent.issues[k].severity = "moderate"

\* C18: the five buckets of audit_counts add up to the number of audit
\* references that were processed, those whose audit exists in the result.
C18_BucketsSumToProcessed ==
    Succeeded("pwa") =>
      LET n == pwaContent.audit_counts
      IN  n.failed + n.passed + n.manual + n.informative + n.not_applicable
            = Cardinality(ProcessedRefs)

\* a manual audit is counted once, beside a reference that is skipped
C18_Witness ==
    /\ Succeeded("pwa")
    /\ pwaContent.audit_counts.manual = 1
    /\ Cardinality(ProcessedRefs) = 1
    /\ Len(engineResult.categories["pwa"].auditRefs) = 2

\* C19: when the engine's response has no PWA category the adapter fails
\* with an error and yields no report, whatever audits the response holds.
C19_MissingCategoryFails ==
    (engine.state = "fulfilled" /\ ~Has(engineResult.categories, "pwa")) =>
       /\ Failed("pwa")
       /\ ~Has(adapter["pwa"], "value")
       /\ all.values["pwa"] = Null

\* no PWA category, yet both installability audits score 1
C19_Witness ==
    /\ engine.state = "fulfilled"
    /\ ~Has(engineResult.categories, "pwa")
    /\ ScoresOne(engineResult.audits, "installable-manifest")
    /\ ScoresOne(engineResult.audits, "service-worker")
    /\ Failed("pwa")

ManifestIssue == "Missing or invalid web app manifest (manifest.json)"

ServiceWorkerIssue ==
    "No service worker registered (required for offline support)"

InSeq(x, seq) == \E k \in 1..Len(seq) : seq[k] = x

\* C20: is_installable is true exactly when the installable-manifest audit
\* scores 1 and the service-worker audit scores 1; an audit that is absent or
\* does not score 1 puts its issue string in installability.issues, so an
\* installable report holds neither string.
C20_InstallableIffBothScoreOne ==
    Succeeded("pwa") =>
      LET a        == engineResult.audits
          inst     == pwaContent.installability
          manifest == "installable-manifest" \in DOMAIN a
                         /\ a["installable-manifest"].score = 100
          worker   == "service-worker" \in DOMAIN a
                         /\ a["service-worker"].score = 100
      IN  /\ inst.is_installable <=> (manifest /\ worker)
          /\ ~manifest => InSeq(ManifestIssue, inst.issues)
          /\ ~worker => InSeq(ServiceWorkerIssue, inst.issues)
          /\ inst.is_installable =>
                /\ ~InSeq(ManifestIssue, inst.issues)
                /\ ~InSeq(ServiceWorkerIssue, inst.issues)

\* an installable report, whose only installability issue is the icons one
C20_Witness ==
    /\ Succeeded("pwa")
    /\ pwaContent.installability.is_installable
    /\ pwaContent.installability.issues =
          <<"Missing app icons (required for installation)">>

\* the bucket the classification rule gives the audit of reference k
RuleBucket(k) ==
    LET audit == engineResult.audits[engineResult.categories["pwa"].auditRefs[k]]
    IN  CASE audit.scoreDisplayMode = "manual" -> "manual"
          [] audit.scoreDisplayMode = "informative" -> "informative"
          [] audit.scoreDisplayMode = "notApplicable" -> "not_applicable"
          [] OTHER -> IF audit.score = 100 THEN "passed" ELSE "failed"

RefsInBucket(b) == {k \in ProcessedRefs : RuleBucket(k) = b}

\* C21: every processed audit entry is counted in exactly one bucket, the
\* one of the first matching test (manual, informative, not applicable,
\* score 1, otherwise failed); so an entry whose display mode is manual,
\* informative or not applicable is never counted as passed or failed and
\* never produces an issue, whatever its score.
C21_FirstMatchingBucket ==
    Succeeded("pwa") =>
      LET refs == engineResult.categories["pwa"].auditRefs
      IN  /\ \A b \in {"failed", "passed", "manual", "informative",
                       "not_applicable"} :
                pwaContent.audit_counts[b] = Cardinality(RefsInBucket(b))
          /\ {pwaContent.issues[k].id : k \in 1..Len(pwaContent.issues)}
                = {refs[k] : k \in RefsInBucket("failed")}
          /\ \A k \in 1..Len(pwaContent.issues) :
                engineResult.audits[pwaContent.issues[k].id].scoreDisplayMode
                   = "binary"

\* a manual audit scoring 0 and an informative audit scoring 1: neither is
\* counted as failed or passed and there is no issue
C21_Witness ==
    /\ Succeeded("pwa")
    /\ \E j, k \in ProcessedRefs :
          LET refs == engineResult.categories["pwa"].auditRefs
          IN  /\ engineResult.audits[refs[j]].scoreDisplayMode = "manual"
              /\ engineResult.audits[refs[j]].score = 0
              /\ engineResult.audits[refs[k]].scoreDisplayMode = "informative"
              /\ engineResult.audits[refs[k]].score = 100
    /\ pwaContent.audit_counts =
          [failed |-> 0, passed |-> 0, manual |-> 1, informative |-> 1,
           not_applicable |-> 0]
    /\ pwaContent.issues = <<>>

SeverityRank ==
    [critical |-> 0, serious |-> 1, moderate |-> 2, minor |-> 3]

SeverityLabel ==
    [critical |-> "CRITICAL", serious |-> "SERIOUS", moderate |-> "MODERATE",
     minor |-> "MINOR"]

Rendering(issue) == SeverityLabel[issue.severity] \o ": " \o issue.title

Min(a, b) == IF a <= b THEN a ELSE b

\* C22: prioritized_recommendations has at most five entries; they render,
\* as "<SEVERITY>: <title>", five issues of least severity rank in
\* non-decreasing rank: no issue left out ranks before one that is rendered.
C22_RecommendationsFirstFiveBySeverity ==
    Succeeded("pwa") =>
      LET recs   == pwaContent.prioritized_recommendations
          issues == pwaContent.issues
      IN  /\ Len(recs) <= 5
          /\ Len(recs) = Min(5, Len(issues))
          /\ \A k \in 1..Len(recs) : recs[k] = Rendering(issues[k])
          /\ \A j, k \in 1..Len(recs) :
                j < k => SeverityRank[issues[j].severity]
                            <= SeverityRank[issues[k].severity]
          /\ \A j \in 1..Len(recs), k \in (Len(recs) + 1)..Len(issues) :
                SeverityRank[issues[j].severity]
                   <= SeverityRank[issues[k].severity]

\* six issues, five recommendations, the first critical and the last moderate
C22_Witness ==
    /\ Succeeded("pwa")
    /\ Len(pwaContent.issues) = 6
    /\ Len(pwaContent.prioritized_recommendations) = 5
    /\ pwaContent.issues[1].severity = "critical"
    /\ pwaContent.issues[5].severity = "moderate"
    /\ pwaContent.issues[6].severity = "minor"

\* the ids of the failed audits in reference order
RECURSIVE FailedIdsUpTo(_)
FailedIdsUpTo(n) ==
    IF n = 0 THEN <<>>
    ELSE IF n \in RefsInBucket("failed")
         THEN Append(FailedIdsUpTo(n - 1),
                     engineResult.categories["pwa"].auditRefs[n])
         ELSE FailedIdsUpTo(n - 1)

\* C29: in every report of the PWA adapter issues.length equals
\* audit_counts.failed, the issues list itself is in non-decreasing severity
\* rank, and prioritized_recommendations renders the first
\* min(5, issues.length) elements of that list in the same order.
C29_IssuesSortedInPlace ==
    Succeeded("pwa") =>
      LET recs   == pwaContent.prioritized_recommendations
          issues == pwaContent.issues
      IN  /\ Len(issues) = pwaContent.audit_counts.failed
          /\ \A k \in 1..(Len(issues) - 1) :
                SeverityRank[issues[k].severity]
                   <= SeverityRank[issues[k + 1].severity]
          /\ recs = [k \in 1..Min(5, Len(issues)) |-> Rendering(issues[k])]

\* the failed audits come in an order that is not the severity order, and the
\* returned issues are in another order than the references
C29_Witness ==
    /\ Succeeded("pwa")
    /\ Len(pwaContent.issues) >= 2
    /\ [k \in 1..Len(pwaContent.issues) |-> pwaContent.issues[k].id]
          # FailedIdsUpTo(Len(engineResult.categories["pwa"].auditRefs))
    /\ pwaContent.issues[1].severity = "critical"

\* the stage that binds `name` has finished
Finished(name) == Has(locals, name)

Joined == Finished("pwaResult")

\* C23 as claimed: after the join the stages run in the order Score
\* Aggregator, Insight Engine, Action Prioritizer, Quick-Win Extractor,
\* Summary Calculator, each starting only after the previous one has finished.
C23_SummaryCalculatorLast ==
    /\ Finished("overall_score") => Joined
    /\ Finished("cross_category_insights") => Finished("overall_score")
    /\ Finished("prioritized_action_items")
          => Finished("cross_category_insights")
    /\ Finished("quick_wins") => Finished("prioritized_action_items")
    /\ Finished("summary") => Finished("quick_wins")

\* C23 amended: after the join the stages run in the order Score Aggregator,
\* Summary Calculator, Insight Engine, Action Prioritizer, Quick-Win
\* Extractor, each starting only after the previous one has finished, and the
\* analysis is returned after the last.
C23_StageOrder ==
    /\ Finished("overall_score") => (Joined /\ AllSettled)
    /\ Finished("summary") => Finished("overall_score")
    /\ Finished("cross_category_insights") => Finished("summary")
    /\ Finished("prioritized_action_items")
          => Finished("cross_category_insights")
    /\ Finished("quick_wins") => Finished("prioritized_action_items")
    /\ Done => Finished("quick_wins")

\* the summary is computed and the Insight Engine has not run yet
C23_Witness ==
    /\ Finished("summary")
    /\ ~Finished("cross_category_insights")
    /\ pc = "cross_category_insights"

\* C26: in every returned analysis, category_scores[key] equals the score
\* of the report under the same key, for each of the five categories, both
\* for an adapter's report and for the substituted empty report.
C26_CategoryScoresMatchReports ==
    Done => \A c \in CatSet : analysis.category_scores[c] = analysis[c].score

\* one category degraded, one with a report whose score is not 0
C26_Witness ==
    /\ Done
    /\ \E c, d \in CatSet :
          /\ Failed(c)
          /\ analysis.category_scores[c] = 0
          /\ Succeeded(d)
          /\ analysis.category_scores[d] > 0

\* insight lists to put in the place of the one that was generated
OtherInsightLists ==
    {<<>>, <<Insight1>>, <<Insight4, Insight2>>,
     <<Insight1, Insight2, Insight3, Insight4, Insight5>>}

\* the roi scores of the candidates whose gate holds on the reports
GatedRois ==
    {n \in {95, 90, 85, 80, 70} :
        \/ n = 95 /\ ActionGate1(analysis.best_practices)
        \/ n = 90 /\ ActionGate2(analysis.performance)
        \/ n = 85 /\ ActionGate3(analysis.accessibility)
        \/ n = 80 /\ ActionGate4(analysis.seo)
        \/ n = 70 /\ ActionGate5(analysis.pwa)}

\* C28: the action items depend on the five reports alone: any other insight
\* list in the place of cross_category_insights gives the same list, and the
\* items emitted are exactly the candidates, of roi 95, 90, 85, 80 and 70,
\* whose gate holds, one item each.
C28_ActionItemsIgnoreInsights ==
    Done =>
      LET items == analysis.prioritized_action_items
      IN  /\ \A other \in OtherInsightLists :
                generatePrioritizedActionItems(analysis.performance,
                    analysis.accessibility, analysis.seo,
                    analysis.best_practices, analysis.pwa, other) = items
          /\ {items[k].roi_score : k \in 1..Len(items)} = GatedRois
          /\ Len(items) = Cardinality(GatedRois)

\* action items although no insight was generated
C28_Witness ==
    /\ Done
    /\ analysis.cross_category_insights = <<>>
    /\ Len(analysis.prioritized_action_items) >= 2

PwaActionTitle == "Implement Progressive Web App features"

PwaActionItems ==
    {k \in 1..Len(analysis.prioritized_action_items) :
        analysis.prioritized_action_items[k].title = PwaActionTitle}

\* C30: the action item "Implement Progressive Web App features", of roi 70
\* and high effort, is emitted exactly when the PWA report of the analysis
\* is not installable and scores below 50; so it is present whenever the PWA
\* adapter failed and the empty report stands in.
C30_PwaActionItem ==
    Done =>
      /\ (PwaActionItems # {})
            <=> (~analysis.pwa.installability.is_installable
                   /\ analysis.pwa.score < 50)
      /\ \A k \in PwaActionItems :
            /\ analysis.prioritized_action_items[k].roi_score = 70
            /\ analysis.prioritized_action_items[k].effort = "high"
      /\ Cardinality(PwaActionItems) <= 1
      /\ Failed("pwa") => PwaActionItems # {}

\* the PWA adapter failed, every other adapter returned a clean report, and
\* the item is the only action item
C30_Witness ==
    /\ Done
    /\ Failed("pwa")
    /\ \A c \in CatSet \ {"pwa"} : Succeeded(c) /\ analysis[c].score = 100
    /\ Len(analysis.prioritized_action_items) = 1
    /\ PwaActionItems = {1}


(***************************************************************************)
(* Properties of the session endpoints, over SessionSpec.                  *)
(***************************************************************************)
\* the step sends a response
Responds == response'.at = now' /\ now' = now + 1

\* C24: an id that is not in the sessions map enters it only through a
\* successful POST /session/start for that id, and the session stored under
\* an id is replaced only that way; so a closed session stays closed, also
\* while a lighthouse or comprehensive-analysis request for it awaits its
\* audits, and such a request never overwrites a newer session.
C24_ClosedSessionStaysClosed ==
    [][\A id \in SessionIds :
          (/\ Has(sessions', id)
           /\ (~Has(sessions, id) \/ sessions[id] # sessions'[id]))
             => /\ Responds
                /\ response'.endpoint = "start"
                /\ response'.status = 200
                /\ response'.sessionId = id]_vars

ErrorStatuses == {400, 404, 409}

\* C25: an error response of a session endpoint leaves the sessions map and
\* every field of every session unchanged and starts no audit: 400 for a
\* missing sessionId or url parameter and for a lighthouse request on a
\* session that was not navigated, 409 for a start with an id in the map,
\* 404 for the other endpoints on an id that is not in the map.
C25_ErrorResponsesChangeNothing ==
    [][(Responds /\ response'.status \in ErrorStatuses) =>
          /\ sessions' = sessions
          /\ heap' = heap
          /\ requests' = requests
          /\ response'.status = 409 =>
                /\ response'.endpoint = "start"
                /\ Has(sessions, response'.sessionId)
          /\ response'.status = 404 =>
                /\ response'.endpoint # "start"
                /\ ~Has(sessions, response'.sessionId)
          /\ response'.status = 400 =>
                \/ response'.endpoint = "start"
                      /\ response'.sessionId = Missing
                \/ response'.endpoint \in {"navigate", "comprehensive-analysis"}
                \/ /\ response'.endpoint = "lighthouse"
                   /\ Has(sessions, response'.sessionId)
                   /\ heap[sessions[response'.sessionId]].url = Missing]_vars

\* a lighthouse request was just refused with 400 on a session that exists
\* and was not navigated; no audit is running
C25_Witness ==
    /\ response.at = now
    /\ response.endpoint = "lighthouse"
    /\ response.status = 400
    /\ Has(sessions, response.sessionId)
    /\ heap[sessions[response.sessionId]].url = Missing
    /\ requests = {}

\* the values of a stored lighthouseResults, by category
DetailValues(details) ==
    [c \in CatSet |->
        CASE c = "performance" -> details.performance
          [] c = "accessibility" -> details.accessibility
          [] c = "seo" -> details.seo
          [] c = "best_practices" -> details.bestPractices
          [] c = "pwa" -> details.pwa]

\* C27: the scores GET /session/:id/lighthouse returns for five adapter
\* outcomes equal the category_scores runComprehensiveSiteAnalysis returns
\* for the same outcomes, category by category.
C27_LighthouseScoresAreCategoryScores ==
    \A o \in DOMAIN heap :
       heap[o].lighthouseResults # Null =>
          LET lighthouse == heap[o].lighthouseResults.scores
              category_scores ==
                  runComprehensiveSiteAnalysis(heap[o].url,
                      DetailValues(heap[o].lighthouseResults.details))
                    .category_scores
          IN  /\ lighthouse["performance"] = category_scores.performance
              /\ lighthouse["accessibility"] = category_scores.accessibility
              /\ lighthouse["seo"] = category_scores.seo
              /\ lighthouse["best-practices"] = category_scores.best_practices
              /\ lighthouse["pwa"] = category_scores.pwa

=============================================================================
